---- MODULE Spec2Model ----
(***************************************************************************)
(* Model of the horoscope video pipeline: main and                         *)
(* produce_video_from_script (src/main.py), NarratorAgent.generate_audio   *)
(* (src/agents/narrator.py) and EditorEngine.create_scene /                *)
(* assemble_final (src/editor.py), and the key and model failover of       *)
(* AstrologerAgent._generate_script (src/agents/astrologer.py) and         *)
(* DirectorAgent.create_screenplay (src/agents/director.py).               *)
(*                                                                         *)
(* Durations are integers in tenths of a second (58.0s = 580).  The        *)
(* seconds that Python computes from the word timings are IEEE 754         *)
(* doubles (Seconds, ClipWindow).                                          *)
(* A script value is a record [kind, len]: kind "none" is Python None,     *)
(* "str" an ordinary string, "raw" a string that is a stringified object   *)
(* ("{...}"); len is len(str(value)).                                      *)
(***************************************************************************)
EXTENDS Integers, Sequences, FiniteSets, TLC

VARIABLES
    script,          \* the script dict, as the sequence of its items in insertion order
    audio_file,      \* scratch dir: assets/temp/<suffix>/<section>.mp3 per section
    subtitle_file,   \* scratch dir: assets/temp/<suffix>/<section>.json per section
    rashi,           \* the --rashi argument, as the sequence of its tokens
    gradient_file,   \* assets/temp/gradient_large_<rashi_key>.png per rashi key
    music_folder,    \* assets/music as _select_music_by_mood found it
    bg_music_path,   \* what _select_music_by_mood returned, or "unset"
    image_exists,    \* assets/12_photos/<rashi>.jpg is present
    narration,       \* what the TTS service does for each section's speak() in this run
    render,          \* per section: outcome of the rendering calls inside create_scene
    attach,          \* per section: outcome of AudioFileClip/set_audio at lines 248-249
    texture,         \* per section: what np.random.randint delivers in its create_scene call
    screenplay,      \* what director.create_screenplay returns in this run
    caller,          \* "main": main(); "pipeline": produce_video_from_script; "direct": assemble_final called on its own
    today,           \* main: datetime.now(), day and month
    stage,           \* main: the statement main() is at, "none" outside main()
    daily_success,   \* main
    exit_status,     \* main: the exit status of the process, "none" while it runs
    produced,        \* main: the stages whose video file has been written
    pc,              \* position in produce_video_from_script / assemble_final
    content_mood,
    active_sections,
    section_audios,
    total_duration,
    idx,             \* loop index of the for loop being executed
    scenes,
    output,          \* the output file, or NoOutput
    err,             \* the exception that left the call, or "none"
    agent_kind,      \* agent: "astrologer", "director", or "none" when no agent is followed
    agent_pc,        \* agent: position in __init__ / _generate_script / create_screenplay
    api_keys,        \* agent: self.api_keys
    google_model,    \* agent: self.google_model, "None" or "gemini"
    models,          \* agent: self.models
    current_key_index, \* agent: self.current_key_index, counted from 0 as in the source
    client,          \* agent: the key self.client was built from, or "None"
    tried_backup,    \* agent: the local of the call
    model_pos,       \* agent: position of the for loop in self.models, from 1
    attempts,        \* agent: the provider requests of the call so far, with their outcomes
    scans,           \* agent: the number of times the for loop was started in the call
    calls,           \* agent: the number of calls made on the agent
    result           \* agent: how the last call ended and what it returned

vars == <<today, stage, daily_success, exit_status, produced, script, rashi,
          gradient_file, music_folder, bg_music_path, audio_file, subtitle_file,
          image_exists, narration, render, attach, texture, screenplay, caller, pc,
          content_mood, active_sections, section_audios, total_duration, idx, scenes,
          output, err, agent_kind, agent_pc, api_keys, google_model, models,
          current_key_index, client, tried_backup, model_pos, attempts, scans, calls,
          result>>

----------------------------------------------------------------------------
(* Program constants *)

priority_order ==
    <<"hook", "intro", "love", "career", "money", "health", "remedy",
      "lucky_color", "lucky_number", "lucky_dates", "lucky_months">>

\* a drop list that also names a protected section
drop_candidates_protected ==
    <<"intro", "health", "lucky_number", "lucky_color", "money", "hook">>

drop_candidates == <<"intro", "health", "lucky_number", "lucky_color", "money">>

\* the sections named "NEVER DROP" in the trimming comment
ProtectedSections == {"hook", "love", "career", "remedy"}

\* DirectorAgent.create_screenplay joins script_data.get(k, "") over these keys
director_sections == {"intro", "love", "career", "money", "health", "remedy"}

TARGET_DURATION == 580

MinTextLen == 5

\* "+ 0.3 # Buffer"
PauseBuffer == 3

----------------------------------------------------------------------------
(* Helpers *)

Range(s) == {s[i] : i \in 1..Len(s)}

RECURSIVE SumSeq(_)
SumSeq(s) == IF s = <<>> THEN 0 ELSE Head(s) + SumSeq(Tail(s))

Max(a, b) == IF a >= b THEN a ELSE b

NoneValue == [kind |-> "none", len |-> 4]

Str(n) == [kind |-> "str", len |-> n]

RawObject(n) == [kind |-> "raw", len |-> n]

\* bool(value)
PyTruthy(v) == v.kind # "none" /\ v.len > 0

\* len(str(value))
PyStrLen(v) == v.len

\* list(script.keys())
ScriptKeys(s) == [i \in 1..Len(s) |-> s[i].key]

\* section in script
InScript(s, k) == \E i \in 1..Len(s) : s[i].key = k

\* script[section]
ScriptGet(s, k) == s[CHOOSE i \in 1..Len(s) : s[i].key = k].value

\* list.remove(x): removes the first occurrence
ListRemove(s, x) ==
    LET first == CHOOSE i \in 1..Len(s) : s[i] = x /\ \A j \in 1..(i - 1) : s[j] # x
    IN  [i \in 1..(Len(s) - 1) |-> IF i < first THEN s[i] ELSE s[i + 1]]

\* del d[k]
DictDel(d, k) == [x \in (DOMAIN d) \ {k} |-> d[x]]

\* d[k] = v
DictSet(d, k, v) == [x \in (DOMAIN d) \cup {k} |-> IF x = k THEN v ELSE d[x]]

EmptyDict == [x \in {} |-> 0]

----------------------------------------------------------------------------
(* produce_video_from_script, lines 47-54: the pre-filter *)

\* iterates the script's own keys instead of the priority list
PreFilter_insertion(s) ==
    LET Keep(k) == /\ PyTruthy(ScriptGet(s, k))
                   /\ PyStrLen(ScriptGet(s, k)) >= MinTextLen
    IN  SelectSeq(ScriptKeys(s), Keep)

PreFilter(s) ==
    LET NotKnown(k) == k \notin Range(priority_order)
        order == priority_order \o SelectSeq(ScriptKeys(s), NotKnown)
        Keep(k) == /\ InScript(s, k)
                   /\ PyTruthy(ScriptGet(s, k))
                   /\ PyStrLen(ScriptGet(s, k)) >= MinTextLen
    IN  SelectSeq(order, Keep)

\* create_screenplay line 145: " ".join(...) raises TypeError on a non-string item
DirectorJoinRaises(s) ==
    \E k \in director_sections : InScript(s, k) /\ ScriptGet(s, k).kind = "none"

\* line 44: screenplay.get("mood", "peaceful") if isinstance(screenplay, dict) else "peaceful"
MoodOf(sp) == IF sp.isdict /\ sp.mood # "absent" THEN sp.mood ELSE "peaceful"

\* lines 158-161: the speech text is a stringified object.  For lucky_color and
\* lucky_number the speech text is rebuilt from a fixed Hindi template (lines
\* 141-150) and never starts with a brace.
IsRawSpeech(section, v) ==
    v.kind = "raw" /\ section \notin {"lucky_color", "lucky_number"}

----------------------------------------------------------------------------
(* Files in the scratch directory *)

NoFile == [origin |-> "none", len |-> 0, words |-> <<>>]

\* os.path.exists(path)
Exists(f) == f.origin # "none"

\* AudioFileClip(path) succeeds: a file without audio data cannot be read
AudioReadable(f) == Exists(f) /\ f.len > 0

(* NarratorAgent.generate_audio: n is what the TTS service does in this call.
   "raise_early": an exception before the output file is opened (line 28 or 31);
   "stream_fail": the stream raises after n.len of audio was written;
   "ok": the stream completes with n.len of audio and the WordBoundary events n.words. *)
GenerateAudio(a, s, n) ==
    CASE n.result = "raise_early" ->
            [audio |-> a, sub |-> s, ret |-> FALSE]
      [] n.result = "stream_fail" ->
            [audio |-> [origin |-> "run", len |-> n.len, words |-> <<>>],
             sub |-> s, ret |-> FALSE]
      [] OTHER ->
            [audio |-> [origin |-> "run", len |-> n.len, words |-> <<>>],
             sub |-> IF n.words # <<>>
                     THEN [origin |-> "run", len |-> 0, words |-> n.words]
                     ELSE s,
             ret |-> TRUE]

----------------------------------------------------------------------------
(* produce_video_from_script, lines 189-217: smart trimming *)

\* the candidate's duration is taken off the total, the section stays
TrimOne_total_only(st, candidate) ==
    IF candidate \in DOMAIN st.audios
    THEN [st EXCEPT !.total = st.total - st.audios[candidate].duration]
    ELSE st

\* lines 208-215: one drop candidate, on the planner state st = [active, audios, total]
TrimOne(st, candidate) ==
    IF candidate \in DOMAIN st.audios
    THEN [active |-> IF candidate \in Range(st.active)
                     THEN ListRemove(st.active, candidate)
                     ELSE st.active,
          audios |-> DictDel(st.audios, candidate),
          total  |-> st.total - st.audios[candidate].duration]
    ELSE st

\* the loop stops only strictly below the ceiling
TrimBreaks_strict(total, ceiling) == total < ceiling

\* line 205: the loop stops before candidate j
TrimBreaks(total, ceiling) == total <= ceiling

\* the trim is entered at the ceiling already
TrimNeeded_at_ceiling(total, ceiling) == total >= ceiling

\* line 191: the trim is entered
TrimNeeded(total, ceiling) == total > ceiling

\* lines 204-215: the loop from candidate j on, for a ceiling
RECURSIVE TrimLoop(_, _, _)
TrimLoop(st, j, ceiling) ==
    IF j > Len(drop_candidates) \/ TrimBreaks(st.total, ceiling)
    THEN st
    ELSE TrimLoop(TrimOne(st, drop_candidates[j]), j + 1, ceiling)

\* lines 190-217
SmartTrim(st, ceiling) ==
    IF TrimNeeded(st.total, ceiling) THEN TrimLoop(st, 1, ceiling) ELSE st

----------------------------------------------------------------------------
(* Python floats.  A positive float is the IEEE 754 double M * 2^e, with the
   53 bits of M in m, least significant bit first (m[53] = 1); 0.0 has no
   bits.  Division and addition round to nearest, ties to even. *)

FloatZero == [m |-> <<>>, e |-> 0]

Zeros(n) == [i \in 1..n |-> 0]

\* binary digits of a natural number, least significant first
RECURSIVE NatBits(_)
NatBits(n) == IF n = 0 THEN <<>> ELSE <<n % 2>> \o NatBits(n \div 2)

\* a + b + c for two digit sequences of the same length and a carry
RECURSIVE AddBits(_, _, _)
AddBits(a, b, c) ==
    IF a = <<>> THEN (IF c = 1 THEN <<1>> ELSE <<>>)
    ELSE LET s == Head(a) + Head(b) + c
         IN  <<s % 2>> \o AddBits(Tail(a), Tail(b), s \div 2)

\* the double nearest to bits * 2^e (+ a non-zero remainder below the last
\* bit when sticky), for a digit sequence whose last digit is 1
RoundBits(bits, sticky, e) ==
    LET L == Len(bits)
    IN  IF L <= 53 THEN [m |-> Zeros(53 - L) \o bits, e |-> e - (53 - L)]
        ELSE LET k == L - 53
                 kept == SubSeq(bits, k + 1, L)
                 below == sticky \/ \E i \in 1..(k - 1) : bits[i] = 1
                 up == bits[k] = 1 /\ (below \/ kept[1] = 1)
                 r == IF up THEN AddBits(kept, Zeros(53), 1) ELSE kept
             IN  IF Len(r) = 54 THEN [m |-> Tail(r), e |-> e + k + 1]
                 ELSE [m |-> r, e |-> e + k]

\* long division: the digits of the quotient after those in bits, until 54
\* significant digits are known
RECURSIVE DivBits(_, _, _, _)
DivBits(bits, r, b, e) ==
    IF Len(bits) >= 54 \/ (r = 0 /\ bits # <<>>) THEN [bits |-> bits, r |-> r, e |-> e]
    ELSE LET bit == IF 2 * r >= b THEN 1 ELSE 0
         IN  DivBits(IF bits = <<>> /\ bit = 0 THEN <<>> ELSE <<bit>> \o bits,
                     2 * r - bit * b, b, e - 1)

\* a / b for naturals a and b > 0
FloatDiv(a, b) ==
    IF a = 0 THEN FloatZero
    ELSE LET d == DivBits(NatBits(a \div b), a % b, b, 0)
         IN  RoundBits(d.bits, d.r # 0, d.e)

\* x + y
FloatAdd(x, y) ==
    IF x.m = <<>> THEN y
    ELSE IF y.m = <<>> THEN x
    ELSE LET e == IF x.e < y.e THEN x.e ELSE y.e
             ax == Zeros(x.e - e) \o x.m
             ay == Zeros(y.e - e) \o y.m
             L == Max(Len(ax), Len(ay))
         IN  RoundBits(AddBits(ax \o Zeros(L - Len(ax)), ay \o Zeros(L - Len(ay)), 0),
                       FALSE, e)

\* a - b - c for two digit sequences of the same length, a >= b, and a borrow
RECURSIVE SubBits(_, _, _)
SubBits(a, b, c) ==
    IF a = <<>> THEN <<>>
    ELSE LET d == Head(a) - Head(b) - c
         IN  <<d % 2>> \o SubBits(Tail(a), Tail(b), IF d < 0 THEN 1 ELSE 0)

\* a digit sequence without its leading zeros (the last ones of the sequence)
RECURSIVE StripBits(_)
StripBits(bits) ==
    IF bits = <<>> \/ bits[Len(bits)] = 1 THEN bits
    ELSE StripBits(SubSeq(bits, 1, Len(bits) - 1))

\* x - y for x >= y
FloatSub(x, y) ==
    IF y.m = <<>> THEN x
    ELSE LET e == IF x.e < y.e THEN x.e ELSE y.e
             ax == Zeros(x.e - e) \o x.m
             ay == Zeros(y.e - e) \o y.m
             L == Max(Len(ax), Len(ay))
             d == StripBits(SubBits(ax \o Zeros(L - Len(ax)), ay \o Zeros(L - Len(ay)), 0))
         IN  IF d = <<>> THEN FloatZero ELSE RoundBits(d, FALSE, e)

\* x <= y
FloatLE(x, y) ==
    IF x.m = <<>> THEN TRUE
    ELSE IF y.m = <<>> THEN FALSE
    ELSE IF x.e # y.e THEN x.e < y.e
    ELSE x.m = y.m \/ LET i == CHOOSE n \in 1..53 :
                                  /\ x.m[n] # y.m[n]
                                  /\ \A j \in (n + 1)..53 : x.m[j] = y.m[j]
                      IN  x.m[i] < y.m[i]

\* narrator.py lines 38-39: chunk["offset"] / 10000000 and chunk["duration"] /
\* 10000000, for an event time of t tenths of a second (t * 1000000 ticks)
Seconds(t) == FloatDiv(t * 1000000, 10000000)

\* editor.py lines 241-252 / ImageClip.set_start(start).set_duration(dur): the
\* clip of a word is shown during [start, start + dur)
ClipWindow(start, dur) ==
    [start |-> Seconds(start), end |-> FloatAdd(Seconds(start), Seconds(dur))]

----------------------------------------------------------------------------
(* Rashi names and themes (src/editor.py lines 31-56, 92-146).  A name is the
   sequence of its tokens: words (w is the word in lower case, up tells
   whether it is written with upper-case letters), spaces and parentheses. *)

Wd(w, up) == [t |-> "word", w |-> w, up |-> up]

Sp == [t |-> "space", w |-> " ", up |-> FALSE]

LP == [t |-> "lparen", w |-> "(", up |-> FALSE]

RP == [t |-> "rparen", w |-> ")", up |-> FALSE]

\* str.lower()
Lower(name) == [i \in DOMAIN name |-> [name[i] EXCEPT !.up = FALSE]]

RECURSIVE LStrip(_)
LStrip(name) ==
    IF name # <<>> /\ Head(name).t = "space" THEN LStrip(Tail(name)) ELSE name

RECURSIVE RStrip(_)
RStrip(name) ==
    IF name # <<>> /\ name[Len(name)].t = "space"
    THEN RStrip(SubSeq(name, 1, Len(name) - 1)) ELSE name

\* str.strip()
Strip(name) == RStrip(LStrip(name))

\* str.split(sep)[0]: the part before the first token of type t
RECURSIVE Before(_, _)
Before(name, t) ==
    IF name = <<>> \/ Head(name).t = t THEN <<>>
    ELSE <<Head(name)>> \o Before(Tail(name), t)

\* str.split()[0]: the first run of tokens between spaces; IndexError when
\* the name has none
SplitFirst(name) == Before(LStrip(name), "space")

SplitIsEmpty(name) == LStrip(name) = <<>>

\* main.py line 242: rashi.split('(')[0].strip()
clean_rashi_name(name) == Strip(Before(name, "lparen"))

\* _get_rashi_key, lines 92-95: rashi_name.lower().split()[0].split("(")[0].strip()
get_rashi_key(rashi_name) == Strip(Before(SplitFirst(Lower(rashi_name)), "lparen"))

GetRashiKeyRaises(rashi_name) == SplitIsEmpty(Lower(rashi_name))

Ramp(top, bottom) == [top |-> top, bottom |-> bottom]

\* lines 31-56
RASHI_GRADIENTS ==
    [mesh |-> Ramp(<<180, 40, 40>>, <<60, 10, 10>>),
     aries |-> Ramp(<<180, 40, 40>>, <<60, 10, 10>>),
     vrushabh |-> Ramp(<<40, 120, 60>>, <<15, 50, 25>>),
     taurus |-> Ramp(<<40, 120, 60>>, <<15, 50, 25>>),
     mithun |-> Ramp(<<200, 180, 50>>, <<80, 60, 20>>),
     gemini |-> Ramp(<<200, 180, 50>>, <<80, 60, 20>>),
     kark |-> Ramp(<<60, 80, 140>>, <<20, 30, 60>>),
     cancer |-> Ramp(<<60, 80, 140>>, <<20, 30, 60>>),
     singh |-> Ramp(<<200, 100, 30>>, <<80, 40, 10>>),
     leo |-> Ramp(<<200, 100, 30>>, <<80, 40, 10>>),
     kanya |-> Ramp(<<100, 140, 80>>, <<40, 60, 30>>),
     virgo |-> Ramp(<<100, 140, 80>>, <<40, 60, 30>>),
     tula |-> Ramp(<<140, 100, 160>>, <<50, 35, 60>>),
     libra |-> Ramp(<<140, 100, 160>>, <<50, 35, 60>>),
     vrushchik |-> Ramp(<<100, 30, 40>>, <<40, 10, 15>>),
     scorpio |-> Ramp(<<100, 30, 40>>, <<40, 10, 15>>),
     dhanu |-> Ramp(<<160, 80, 40>>, <<60, 30, 15>>),
     sagittarius |-> Ramp(<<160, 80, 40>>, <<60, 30, 15>>),
     makar |-> Ramp(<<60, 60, 60>>, <<25, 25, 25>>),
     capricorn |-> Ramp(<<60, 60, 60>>, <<25, 25, 25>>),
     kumbh |-> Ramp(<<40, 100, 160>>, <<15, 40, 60>>),
     aquarius |-> Ramp(<<40, 100, 160>>, <<15, 40, 60>>),
     meen |-> Ramp(<<80, 120, 140>>, <<30, 50, 60>>),
     pisces |-> Ramp(<<80, 120, 140>>, <<30, 50, 60>>)]

\* the key is one of the strings of the table
IsTableKey(rashi_key) ==
    /\ Len(rashi_key) = 1
    /\ rashi_key[1].t = "word"
    /\ ~rashi_key[1].up
    /\ rashi_key[1].w \in DOMAIN RASHI_GRADIENTS

\* variant: a key that is not in the table gets the ramp of the first entry
GradientColors_first_entry(rashi_key) ==
    IF IsTableKey(rashi_key) THEN RASHI_GRADIENTS[rashi_key[1].w]
    ELSE RASHI_GRADIENTS["mesh"]

\* line 120: RASHI_GRADIENTS.get(rashi_key, ((30, 30, 60), (10, 10, 20)))
GradientColors(rashi_key) ==
    IF IsTableKey(rashi_key) THEN RASHI_GRADIENTS[rashi_key[1].w]
    ELSE Ramp(<<30, 30, 60>>, <<10, 10, 20>>)

\* outcomes of np.random.randint(0, 20, ...) at line 138: the texture added to
\* the gradient
NoiseTextures == {"noise_a", "noise_b"}

\* _create_gradient_image, lines 116-146: the image saved at
\* assets/temp/gradient_large_<rashi_key>.png
create_gradient_image(rashi_name, noise) ==
    [key |-> get_rashi_key(rashi_name),
     colors |-> GradientColors(get_rashi_key(rashi_name)),
     noise |-> noise]

----------------------------------------------------------------------------
(* EditorEngine.create_scene *)

\* if not word.strip()
IsBlank(word) == word \in {"", " "}

Layer(kind, start, end) == [kind |-> kind, start |-> start, end |-> end]

\* _create_karaoke_subtitles: one clip per non-blank word, shown during [start, start + duration)
RECURSIVE KaraokeSubtitles(_)
KaraokeSubtitles(subtitle_data) ==
    IF subtitle_data = <<>> THEN <<>>
    ELSE LET sub == Head(subtitle_data)
         IN  (IF IsBlank(sub.text) THEN <<>>
              ELSE <<Layer("karaoke", sub.start, sub.start + sub.duration)>>)
             \o KaraokeSubtitles(Tail(subtitle_data))

\* variant: the static caption ends with the narration, before the pause
SceneLayers_short_caption(duration, subtitle_data, has_image) ==
    <<Layer("background", 0, duration)>>
    \o (IF has_image THEN <<Layer("rashi_image", 0, duration)>> ELSE <<>>)
    \o (IF subtitle_data # <<>>
        THEN KaraokeSubtitles(subtitle_data)
        ELSE <<Layer("static", 0, duration - PauseBuffer)>>)

\* lines 189-229: subtitle_data is <<>> for None and for an empty list (both falsy)
SceneLayers(duration, subtitle_data, has_image) ==
    <<Layer("background", 0, duration)>>
    \o (IF has_image THEN <<Layer("rashi_image", 0, duration)>> ELSE <<>>)
    \o (IF subtitle_data # <<>>
        THEN KaraokeSubtitles(subtitle_data)
        ELSE <<Layer("static", 0, duration)>>)

\* CompositeVideoClip(layers): the clip lasts until its last layer ends
RECURSIVE MaxEnd(_)
MaxEnd(layers) ==
    IF layers = <<>> THEN 0 ELSE Max(Head(layers).end, MaxEnd(Tail(layers)))

\* variant: the caption layers are put under the background and the image
create_scene_caption_first(rashi_name, section, duration, subtitle_data, has_image, noise) ==
    LET layers == SceneLayers(duration, subtitle_data, has_image)
        n == IF has_image THEN 2 ELSE 1
    IN  [section |-> section,
         layers |-> SubSeq(layers, n + 1, Len(layers)) \o SubSeq(layers, 1, n),
         duration |-> MaxEnd(layers), audio |-> "none",
         background |-> create_gradient_image(rashi_name, noise)]

\* background is the gradient image that line 193 loads into the first layer
create_scene(rashi_name, section, duration, subtitle_data, has_image, noise) ==
    LET layers == SceneLayers(duration, subtitle_data, has_image)
    IN  [section |-> section, layers |-> layers, duration |-> MaxEnd(layers),
         audio |-> "none", background |-> create_gradient_image(rashi_name, noise)]

\* variant: the clip is appended as create_scene returned it
set_audio_skipped(clip, section) == clip

\* clip.set_audio(AudioFileClip(audio_path))
set_audio(clip, section) == [clip EXCEPT !.audio = section]

----------------------------------------------------------------------------
(* EditorEngine.assemble_final *)

NoOutput ==
    [written |-> FALSE, duration |-> 0, sections |-> <<>>, starts |-> <<>>,
     bg_music |-> FALSE]

\* variant: the clips are laid over one another, the result lasts as long as
\* the longest clip
ConcatDuration_longest(scs) ==
    IF scs = <<>> THEN 0
    ELSE LET ds == {scs[i].duration : i \in 1..Len(scs)}
         IN  CHOOSE d \in ds : \A e \in ds : e <= d

\* concatenate_videoclips(scenes): duration of the concatenation
ConcatDuration(scs) == SumSeq([i \in 1..Len(scs) |-> scs[i].duration])

\* concatenate_videoclips(scenes): clip i starts when the clips before it have
\* been played
ClipStarts(scs) == [i \in 1..Len(scs) |-> ConcatDuration(SubSeq(scs, 1, i - 1))]

\* a music file of assets/music; has: the words its lower-case name contains
Track(file, has) == [file |-> file, has |-> has]

\* the three files of _ensure_music_assets, lines 395-399
DefaultTracks ==
    {Track("peaceful_ambient.mp3", {"peaceful", "ambient"}),
     Track("energetic_upbeat.mp3", {"energetic", "upbeat"}),
     Track("mysterious_deep.mp3", {"mysterious", "deep"})}

Folder(exists, tracks) == [exists |-> exists, tracks |-> tracks]

\* assets/music as assemble_final finds it: missing, without a music file, with
\* the default files, with one upbeat file, with one file of no mood
MusicFolderStates ==
    {Folder(FALSE, {}), Folder(TRUE, {}), Folder(TRUE, DefaultTracks),
     Folder(TRUE, {Track("upbeat_fast.mp3", {"upbeat", "fast"})}),
     Folder(TRUE, {Track("track01.wav", {})})}

(* _select_music_by_mood, lines 376-388.  With a missing or empty folder it calls
   _ensure_music_assets, whose body (lines 413-434) reads the names mood and
   all_music, which are not defined in that function: NameError.  With tracks in
   the folder the function falls off its end and returns None. *)
SelectMusicByMood(folder, mood) ==
    IF ~folder.exists \/ folder.tracks = {} THEN "NameError" ELSE "None"

----------------------------------------------------------------------------
(* Inputs of a run *)

\* largest number of sections in a script of the trimming runs
MaxTrimSections == 3

\* largest number of items in a script of the pre-filter runs
MaxScriptLen == 3

Word(text, start, duration) == [text |-> text, start |-> start, duration |-> duration]

\* WordBoundary events of a narration of up to 27s
NominalWords == <<Word("w1", 0, 120), Word("w2", 130, 140)>>

\* word timings left by an earlier, longer narration
LongWords == <<Word("v1", 0, 150), Word("v2", 160, 190)>>

\* WordBoundary events that follow one another without a gap, from 0s to 29.3s
ContiguousWords == <<Word("c1", 0, 1), Word("c2", 1, 2), Word("c3", 3, 290)>>

\* audio lengths, so that duration = length + PauseBuffer is 28s or 30s
AudioLens == {277, 297}

NarrOk(len, words) == [result |-> "ok", len |-> len, words |-> words]

NarrStreamFail(len) == [result |-> "stream_fail", len |-> len, words |-> <<>>]

NarrRaiseEarly == [result |-> "raise_early", len |-> 0, words |-> <<>>]

StaleAudio(len) == [origin |-> "stale", len |-> len, words |-> <<>>]

StaleSubtitles(words) == [origin |-> "stale", len |-> 0, words |-> words]

DictScreenplay(mood) == [isdict |-> TRUE, mood |-> mood]

\* the structure the director's prompt asks for, lines 168-180 of director.py
DirectorScreenplay == DictScreenplay("Energetic")

NonDictScreenplay == [isdict |-> FALSE, mood |-> "absent"]

\* the default of --rashi, main.py line 273: "Mesh (Aries)"
MeshAries == <<Wd("mesh", TRUE), Sp, LP, Wd("aries", TRUE), RP>>

\* "Mesh (Aries)", "TULA", "aries", "Pluto (Dwarf)", "ophiuchus", "Maha Mesh",
\* " Kumbh(Aquarius)" and "(Aries)"
RashiNames ==
    {MeshAries,
     <<Wd("tula", TRUE)>>,
     <<Wd("aries", FALSE)>>,
     <<Wd("pluto", TRUE), Sp, LP, Wd("dwarf", TRUE), RP>>,
     <<Wd("ophiuchus", FALSE)>>,
     <<Wd("maha", TRUE), Sp, Wd("mesh", TRUE)>>,
     <<Sp, Wd("kumbh", TRUE), LP, Wd("aquarius", TRUE), RP>>,
     <<LP, Wd("aries", TRUE), RP>>}

Item(k, v) == [key |-> k, value |-> v]

\* the items of a script with the keys S, in a fixed order, each with a text of 20 characters
PlainScript(order, S) ==
    LET In(k) == k \in S
        keys == SelectSeq(order, In)
    IN  [i \in 1..Len(keys) |-> Item(keys[i], Str(20))]

InitLocals ==
    /\ content_mood = "unset"
    /\ active_sections = <<>>
    /\ section_audios = EmptyDict
    /\ total_duration = 0
    /\ idx = 0
    /\ scenes = <<>>
    /\ gradient_file = EmptyDict
    /\ music_folder = Folder(FALSE, {})
    /\ bg_music_path = "unset"
    /\ output = NoOutput
    /\ err = "none"

\* runs that exercise the trimming: up to MaxTrimSections sections of 28s or 30s,
\* a clean scratch directory, a narrator that delivers or delivers nothing, the
\* same texture in every gradient
InitTrim ==
    /\ \E S \in SUBSET (Range(priority_order) \cup {"extra"}) :
          /\ Cardinality(S) <= MaxTrimSections
          /\ script = PlainScript(priority_order \o <<"extra">>, S)
          /\ narration \in [S -> {NarrOk(l, NominalWords) : l \in AudioLens}
                                 \cup {NarrStreamFail(0)}]
          /\ audio_file = [k \in S |-> NoFile]
          /\ subtitle_file = [k \in S |-> NoFile]
          /\ render = [k \in S |-> "ok"]
          /\ attach = [k \in S |-> "ok"]
          /\ texture = [k \in S |-> "noise_a"]
    /\ image_exists = TRUE
    /\ screenplay = DirectorScreenplay
    /\ rashi = MeshAries
    /\ caller = "pipeline"
    /\ pc = "start"
    /\ InitLocals

\* keys and values of the scripts of the pre-filter runs
FilterKeys == {"intro", "lucky_number", "zeta", "alpha"}

FilterValues == {NoneValue, Str(0), Str(MinTextLen - 1), Str(MinTextLen), RawObject(8)}

\* runs that exercise the pre-filter: every script of up to MaxScriptLen items
\* over FilterKeys and FilterValues, in every insertion order
InitFilter ==
    /\ \E n \in 0..MaxScriptLen :
          \E keys \in [1..n -> FilterKeys] :
             \E values \in [1..n -> FilterValues] :
                /\ \A i, j \in 1..n : i # j => keys[i] # keys[j]
                /\ script = [i \in 1..n |-> Item(keys[i], values[i])]
                /\ narration = [k \in Range(keys) |-> NarrOk(297, NominalWords)]
                /\ audio_file = [k \in Range(keys) |-> NoFile]
                /\ subtitle_file = [k \in Range(keys) |-> NoFile]
                /\ render = [k \in Range(keys) |-> "ok"]
                /\ attach = [k \in Range(keys) |-> "ok"]
                /\ texture = [k \in Range(keys) |-> "noise_a"]
    /\ image_exists \in BOOLEAN
    /\ screenplay = DirectorScreenplay
    /\ rashi = MeshAries
    /\ caller = "pipeline"
    /\ pc = "start"
    /\ InitLocals

FaultNarrations ==
    {NarrRaiseEarly, NarrStreamFail(0), NarrStreamFail(150),
     NarrOk(297, NominalWords), NarrOk(297, ContiguousWords), NarrOk(297, <<>>)}

\* runs that exercise the failures: one or two sections, files of an earlier run
\* in the scratch directory, a narrator, renderer and audio reader that may fail
InitFaults ==
    /\ \E S \in {{"hook"}, {"hook", "health"}} :
          /\ script = PlainScript(priority_order, S)
          /\ narration \in [S -> FaultNarrations]
          /\ audio_file \in [S -> {NoFile, StaleAudio(297)}]
          /\ subtitle_file \in [S -> {NoFile, StaleSubtitles(NominalWords),
                                      StaleSubtitles(LongWords)}]
          /\ \E bad \in SUBSET S : \E mute \in SUBSET (S \ bad) :
                /\ render = [k \in S |-> IF k \in bad THEN "raise" ELSE "ok"]
                /\ attach = [k \in S |-> IF k \in mute THEN "raise" ELSE "ok"]
                /\ texture \in [S -> NoiseTextures]
    /\ image_exists = TRUE
    /\ screenplay \in {DirectorScreenplay, NonDictScreenplay}
    /\ rashi = MeshAries
    /\ caller = "pipeline"
    /\ pc = "start"
    /\ InitLocals

\* runs that exercise the themes: two or three sections with a narration that
\* delivers, for each of the rashi names
InitTheme ==
    /\ \E S \in {{"hook", "love"}, {"hook", "love", "career"}} :
          /\ script = PlainScript(priority_order, S)
          /\ narration = [k \in S |-> NarrOk(277, NominalWords)]
          /\ audio_file = [k \in S |-> NoFile]
          /\ subtitle_file = [k \in S |-> NoFile]
          /\ render = [k \in S |-> "ok"]
          /\ attach = [k \in S |-> "ok"]
          /\ texture \in [S -> NoiseTextures]
    /\ image_exists = TRUE
    /\ rashi \in RashiNames
    /\ screenplay = DirectorScreenplay
    /\ caller = "pipeline"
    /\ pc = "start"
    /\ InitLocals

\* one spoken word that ends 1s before the narration does
ShortWords(len) == <<Word("a1", 0, len - 10)>>

\* Scenario A of the specification: hook 6s, love 8s, career 10s, remedy 7s,
\* the pause of 0.3s included
ScenarioA ==
    [k \in {"hook", "love", "career", "remedy"} |->
        LET len == CASE k = "hook" -> 57 [] k = "love" -> 77
                     [] k = "career" -> 97 [] OTHER -> 67
        IN  NarrOk(len, ShortWords(len))]

\* intro and hook of 29s each, or hook 0.1s longer: totals of 58.0s and 58.1s
AtCeiling(extra) ==
    [k \in {"intro", "hook"} |->
        NarrOk(IF k = "hook" THEN 287 + extra ELSE 287, NominalWords)]

\* hook 15.5s, intro 11.9s, love 29.8s: 58.1s with the pauses
UnevenPlan ==
    [k \in {"hook", "intro", "love"} |->
        LET len == CASE k = "hook" -> 155 [] k = "intro" -> 119 [] OTHER -> 298
        IN  NarrOk(len, ShortWords(len))]

ScenarioPlans == {ScenarioA, AtCeiling(0), AtCeiling(1), UnevenPlan}

\* runs on the scenarios: every narration delivers, an audio reader that may fail
InitScenario ==
    /\ \E plan \in ScenarioPlans :
          /\ script = PlainScript(priority_order, DOMAIN plan)
          /\ narration = plan
          /\ audio_file = [k \in DOMAIN plan |-> NoFile]
          /\ subtitle_file = [k \in DOMAIN plan |-> NoFile]
          /\ render = [k \in DOMAIN plan |-> "ok"]
          /\ attach \in [DOMAIN plan -> {"ok", "raise"}]
          /\ texture = [k \in DOMAIN plan |-> "noise_a"]
    /\ image_exists = TRUE
    /\ screenplay = DirectorScreenplay
    /\ rashi = MeshAries
    /\ caller = "pipeline"
    /\ pc = "start"
    /\ InitLocals

\* scene lists handed to assemble_final by a caller other than the pipeline
DirectSceneLists ==
    LET sc(k, d) == set_audio(create_scene(clean_rashi_name(MeshAries), k, d, <<>>, TRUE,
                                           "noise_a"), k)
    IN  {<<>>, <<sc("hook", 300)>>, <<sc("hook", 300), sc("love", 300)>>}

\* assemble_final called on its own
InitDirect ==
    /\ script = <<>>
    /\ narration = EmptyDict
    /\ audio_file = EmptyDict
    /\ subtitle_file = EmptyDict
    /\ render = EmptyDict
    /\ attach = EmptyDict
    /\ texture = EmptyDict
    /\ image_exists = TRUE
    /\ rashi = MeshAries
    /\ gradient_file = EmptyDict
    /\ music_folder = Folder(FALSE, {})
    /\ bg_music_path = "unset"
    /\ screenplay = DirectorScreenplay
    /\ caller = "direct"
    /\ pc = "assemble"
    /\ content_mood \in {"peaceful", "Energetic", "Mysterious"}
    /\ active_sections = <<>>
    /\ section_audios = EmptyDict
    /\ total_duration = 0
    /\ idx = 0
    /\ scenes \in DirectSceneLists
    /\ output = NoOutput
    /\ err = "none"

\* dates: 1 January, 1 March, 2 January, 15 June
Dates == {[day |-> 1, month |-> 1], [day |-> 1, month |-> 3],
          [day |-> 2, month |-> 1], [day |-> 15, month |-> 6]}

\* produce_video_from_script or assemble_final called without main()
NotInMain ==
    /\ today = [day |-> 15, month |-> 6]
    /\ stage = "none"
    /\ daily_success = FALSE
    /\ exit_status = "none"
    /\ produced = {}

\* main() on each of the dates, before the agents are constructed
InitMain ==
    /\ script = <<>>
    /\ narration = [k \in {"hook"} |-> NarrOk(277, NominalWords)]
    /\ audio_file = [k \in {"hook"} |-> NoFile]
    /\ subtitle_file = [k \in {"hook"} |-> NoFile]
    /\ render = [k \in {"hook"} |-> "ok"]
    /\ attach = [k \in {"hook"} |-> "ok"]
    /\ texture \in [{"hook"} -> NoiseTextures]
    /\ image_exists = TRUE
    /\ rashi = MeshAries
    /\ screenplay = DirectorScreenplay
    /\ caller = "main"
    /\ pc = "idle"
    /\ InitLocals
    /\ today \in Dates
    /\ stage = "construct"
    /\ daily_success = FALSE
    /\ exit_status = "none"
    /\ produced = {}

\* the state of an agent before __init__ has run
NoResult == [how |-> "none", value |-> "None"]

AgentUnbuilt ==
    /\ agent_pc = "new"
    /\ api_keys = <<>>
    /\ google_model = "None"
    /\ models = <<>>
    /\ current_key_index = 0
    /\ client = "None"
    /\ tried_backup = FALSE
    /\ model_pos = 0
    /\ attempts = <<>>
    /\ scans = 0
    /\ calls = 0
    /\ result = NoResult

\* the runs of the pipeline follow no agent
NoAgent == agent_kind = "none" /\ AgentUnbuilt

Init ==
    /\ NoAgent
    /\ \/ (InitTrim \/ InitFilter \/ InitFaults \/ InitTheme \/ InitScenario \/ InitDirect)
             /\ NotInMain
       \/ InitMain

----------------------------------------------------------------------------
(* Actions *)

env == <<script, rashi, image_exists, narration, render, attach, texture, screenplay,
         caller>>

files == <<audio_file, subtitle_file>>

music == <<music_folder, bg_music_path>>

top == <<today, stage, daily_success, exit_status, produced>>

agent == <<agent_kind, agent_pc, api_keys, google_model, models, current_key_index, client,
           tried_backup, model_pos, attempts, scans, calls, result>>

\* the statement after a for loop over a list at index i
AfterLoop(list, i, inloop, after) == IF i >= Len(list) THEN after ELSE inloop

\* the compose loop is entered, or skipped for an empty list
EnterCompose(active) == IF active = <<>> THEN "check_scenes" ELSE "compose"

\* gives up when the trim could not reach the ceiling
AfterTrim_strict(st) ==
    IF st.total > TARGET_DURATION THEN "raised" ELSE EnterCompose(st.active)

\* main.py lines 217-220: after the trim the scene loop follows, whatever the total
AfterTrim(st) == EnterCompose(st.active)

\* main.py lines 41-45
Director ==
    /\ pc = "start"
    /\ IF DirectorJoinRaises(script)
       THEN /\ pc' = "raised"
            /\ err' = "TypeError"
            /\ UNCHANGED content_mood
       ELSE /\ pc' = "prefilter"
            /\ content_mood' = MoodOf(screenplay)
            /\ UNCHANGED err
    /\ UNCHANGED <<agent, top, env, music, gradient_file, files, active_sections, section_audios, total_duration,
                   idx, scenes, output>>

\* main.py lines 47-62
PreFilterStep ==
    /\ pc = "prefilter"
    /\ active_sections' = PreFilter(script)
    /\ section_audios' = EmptyDict
    /\ total_duration' = 0
    /\ idx' = 1
    /\ pc' = IF active_sections' = <<>> THEN "trim_check" ELSE "synth"
    /\ UNCHANGED <<agent, top, env, music, gradient_file, files, content_mood, scenes, output, err>>

\* main.py lines 86-185: one iteration of the synthesis loop
Synthesize ==
    /\ pc = "synth"
    /\ LET section == active_sections[idx]
           g == GenerateAudio(audio_file[section], subtitle_file[section],
                              narration[section])
       IN  IF IsRawSpeech(section, ScriptGet(script, section))
           THEN UNCHANGED <<files, section_audios, total_duration>>
           ELSE /\ audio_file' = [audio_file EXCEPT ![section] = g.audio]
                /\ subtitle_file' = [subtitle_file EXCEPT ![section] = g.sub]
                /\ IF AudioReadable(g.audio)
                   THEN LET dur == g.audio.len + PauseBuffer
                        IN  /\ section_audios' =
                                  DictSet(section_audios, section, [duration |-> dur])
                            /\ total_duration' = total_duration + dur
                   ELSE UNCHANGED <<section_audios, total_duration>>
    /\ idx' = idx + 1
    /\ pc' = AfterLoop(active_sections, idx, "synth", "trim_check")
    /\ UNCHANGED <<agent, top, env, music, gradient_file, content_mood, active_sections, scenes, output, err>>

\* main.py lines 190-192
TrimCheck ==
    /\ pc = "trim_check"
    /\ pc' = IF TrimNeeded(total_duration, TARGET_DURATION)
             THEN "trim" ELSE EnterCompose(active_sections)
    /\ idx' = 1
    /\ UNCHANGED <<agent, top, env, music, gradient_file, files, content_mood, active_sections, section_audios,
                   total_duration, scenes, output, err>>

\* main.py lines 204-217: one iteration of the loop over drop_candidates
TrimCandidate ==
    /\ pc = "trim"
    /\ IF TrimBreaks(total_duration, TARGET_DURATION)
       THEN /\ pc' = AfterTrim([active |-> active_sections, audios |-> section_audios,
                                  total |-> total_duration])
            /\ idx' = 1
            /\ UNCHANGED <<active_sections, section_audios, total_duration>>
       ELSE LET st == TrimOne([active |-> active_sections, audios |-> section_audios,
                               total |-> total_duration], drop_candidates[idx])
            IN  /\ active_sections' = st.active
                /\ section_audios' = st.audios
                /\ total_duration' = st.total
                /\ pc' = AfterLoop(drop_candidates, idx, "trim", AfterTrim(st))
                /\ idx' = IF idx >= Len(drop_candidates) THEN 1 ELSE idx + 1
    /\ UNCHANGED <<agent, top, env, music, gradient_file, files, content_mood, scenes, output, err>>

\* main.py lines 220-255: one iteration of the scene loop.  A failing rendering
\* call is taken to be the first one of create_scene, before the gradient is saved.
ComposeScene ==
    /\ pc = "compose"
    /\ LET section == active_sections[idx]
           subtitle_data == IF Exists(subtitle_file[section])
                            THEN subtitle_file[section].words ELSE <<>>
           name == clean_rashi_name(rashi)
       IN  IF section \notin DOMAIN section_audios
           THEN /\ pc' = AfterLoop(active_sections, idx, "compose", "check_scenes")
                /\ UNCHANGED <<scenes, err, gradient_file>>
           ELSE IF GetRashiKeyRaises(name)
           THEN /\ pc' = "raised"
                /\ err' = "IndexError"
                /\ UNCHANGED <<scenes, gradient_file>>
           ELSE IF render[section] = "raise"
           THEN /\ pc' = "raised"
                /\ err' = "RenderError"
                /\ UNCHANGED <<scenes, gradient_file>>
           ELSE LET clip == create_scene(name, section,
                                         section_audios[section].duration,
                                         subtitle_data, image_exists, texture[section])
                IN  /\ gradient_file' = DictSet(gradient_file, clip.background.key,
                                                clip.background)
                    /\ pc' = AfterLoop(active_sections, idx, "compose", "check_scenes")
                    /\ scenes' = IF attach[section] = "ok"
                                 THEN Append(scenes, set_audio(clip, section))
                                 ELSE scenes
                    /\ UNCHANGED err
    /\ idx' = idx + 1
    /\ UNCHANGED <<agent, top, env, music, files, content_mood, active_sections, section_audios,
                   total_duration, output>>

\* main.py lines 257-264
CheckScenes ==
    /\ pc = "check_scenes"
    /\ IF scenes = <<>>
       THEN pc' = "raised" /\ err' = "No scenes created."
       ELSE pc' = "assemble" /\ UNCHANGED err
    /\ UNCHANGED <<agent, top, env, music, gradient_file, files, content_mood, active_sections, section_audios,
                   total_duration, idx, scenes, output>>

\* editor.py lines 329-374, with the state of assets/music and the outcome of
\* write_videofile as inputs
AssembleFinal ==
    /\ pc = "assemble"
    /\ IF scenes = <<>>
       THEN pc' = "done" /\ UNCHANGED <<output, err, music>>
       ELSE \E folder \in MusicFolderStates, encode \in {"ok", "raise"} :
              /\ music_folder' = folder
              /\ bg_music_path' = SelectMusicByMood(folder, content_mood)
              /\ IF bg_music_path' = "NameError"
                 THEN pc' = "raised" /\ err' = "NameError" /\ UNCHANGED output
                 ELSE IF encode = "raise"
                 THEN pc' = "raised" /\ err' = "EncodeError" /\ UNCHANGED output
                 ELSE /\ pc' = "done"
                      /\ output' = [written |-> TRUE,
                                    duration |-> ConcatDuration(scenes),
                                    sections |-> [i \in 1..Len(scenes) |-> scenes[i].section],
                                    starts |-> ClipStarts(scenes),
                                    bg_music |-> bg_music_path' # "None"]
                      /\ UNCHANGED err
    /\ UNCHANGED <<agent, top, env, gradient_file, files, content_mood, active_sections, section_audios,
                   total_duration, idx, scenes>>

----------------------------------------------------------------------------
(* main(), src/main.py lines 271-347 *)

Stages == {"daily", "monthly", "yearly"}

\* lines 315 and 330: the statement after the try block of a stage
NextStage(s, date) ==
    IF s = "daily" /\ date.day = 1 THEN "monthly"
    ELSE IF s \in {"daily", "monthly"} /\ date.day = 1 /\ date.month = 1 THEN "yearly"
    ELSE "exit"

\* variant: every stage stores its outcome in daily_success
DailySuccessAfter_every_stage(s, returned, ds) == returned

\* lines 297-312: daily_success is set when the daily call returns, and nowhere else
DailySuccessAfter(s, returned, ds) == IF s = "daily" /\ returned THEN TRUE ELSE ds

\* lines 277-282: the agents are constructed outside any try; a constructor
\* that raises (no API key) ends the process with a traceback and status 1
MainConstruct ==
    /\ stage = "construct"
    /\ \E agents \in {"ok", "raise"} :
          IF agents = "raise"
          THEN stage' = "exited" /\ exit_status' = "1"
          ELSE stage' = "daily" /\ UNCHANGED exit_status
    /\ UNCHANGED <<agent, today, daily_success, produced, env, gradient_file, music, files, pc,
                   content_mood, active_sections, section_audios, total_duration, idx,
                   scenes, output, err>>

\* lines 299-307, 317-325, 332-340: the astrologer call of a stage and the
\* entry into produce_video_from_script with its script, in a scratch
\* directory of its own
MainCall ==
    /\ stage \in Stages
    /\ pc = "idle"
    /\ \E astrologer \in {"ok", "raise"}, S \in {{}, {"hook"}} :
          IF astrologer = "raise"
          THEN /\ pc' = "raised"
               /\ err' = "AstrologerError"
               /\ UNCHANGED script
          ELSE /\ pc' = "start"
               /\ err' = "none"
               /\ script' = PlainScript(priority_order, S)
    /\ audio_file' = [k \in DOMAIN audio_file |-> NoFile]
    /\ subtitle_file' = [k \in DOMAIN subtitle_file |-> NoFile]
    /\ content_mood' = "unset"
    /\ active_sections' = <<>>
    /\ section_audios' = EmptyDict
    /\ total_duration' = 0
    /\ idx' = 0
    /\ scenes' = <<>>
    /\ bg_music_path' = "unset"
    /\ output' = NoOutput
    /\ UNCHANGED <<agent, top, rashi, image_exists, narration, render, attach, texture, screenplay,
                   caller,
                   gradient_file, music_folder>>

\* lines 308-312, 326-327, 341-342: the call returned or its exception was caught
MainReturn ==
    /\ stage \in Stages
    /\ pc \in {"done", "raised"}
    /\ daily_success' = DailySuccessAfter(stage, pc = "done", daily_success)
    /\ produced' = IF output.written THEN produced \cup {stage} ELSE produced
    /\ stage' = NextStage(stage, today)
    /\ pc' = "idle"
    /\ UNCHANGED <<agent, today, exit_status, env, gradient_file, music, files, content_mood,
                   active_sections, section_audios, total_duration, idx, scenes, output,
                   err>>

\* lines 345-347
MainExit ==
    /\ stage = "exit"
    /\ exit_status' = IF ~daily_success THEN "1" ELSE "0"
    /\ stage' = "exited"
    /\ UNCHANGED <<agent, today, daily_success, produced, env, gradient_file, music, files, pc,
                   content_mood, active_sections, section_audios, total_duration, idx,
                   scenes, output, err>>

Next ==
    \/ MainConstruct
    \/ MainCall
    \/ MainReturn
    \/ MainExit
    \/ Director
    \/ PreFilterStep
    \/ Synthesize
    \/ TrimCheck
    \/ TrimCandidate
    \/ ComposeScene
    \/ CheckScenes
    \/ AssembleFinal

Spec == Init /\ [][Next]_vars

----------------------------------------------------------------------------
(* The generation agents: AstrologerAgent (astrologer.py lines 30-80 and
   169-215) and DirectorAgent (director.py lines 29-100 and 138-226).  One
   agent is followed through its construction and its calls. *)

\* largest number of models the discovery delivers in the runs
MaxModels == 2

\* largest number of calls made on one agent
MaxCalls == 2

AgentKinds == {"astrologer", "director"}

ModelId(i) == <<"model", i>>

\* str(e) of a failed request: a 429 response, a quota message in mixed case,
\* and an error that is no quota signal (a 401, a reply that is not JSON)
ErrorTexts == {"Error code: 429", "Rate Limit Exceeded", "Error code: 401"}

\* "429" in error_str
Has429(error_str) == error_str = "Error code: 429"

\* "rate limit" in error_str.lower()
LowerHasRateLimit(error_str) == error_str = "Rate Limit Exceeded"

\* astrologer.py line 196, director.py line 205
IsRateLimit(error_str) == Has429(error_str) \/ LowerHasRateLimit(error_str)

\* what json.loads delivers to the caller: the script of the astrologer; for
\* the director a screenplay with a mood, one without, or a value that is no dict
ReturnValues(kind) ==
    IF kind = "director"
    THEN {DirectorScreenplay, DictScreenplay("absent"), NonDictScreenplay}
    ELSE {"script"}

\* director.py lines 98-100 and 223-226
HardCodedScreenplay == DictScreenplay("Peaceful")

\* the client is always built from the first key
init_client_primary(keys, index) == keys[1]

\* _init_client: astrologer.py lines 66-71, director.py lines 62-67; the client
\* is named by the key it was built from
init_client(keys, index) == keys[index + 1]

\* the switch goes back to the first key
switch_first_key(keys, index, current) ==
    IF index < Len(keys) - 1
    THEN [switched |-> TRUE, index |-> 0, client |-> init_client(keys, 0)]
    ELSE [switched |-> FALSE, index |-> index, client |-> current]

\* _switch_to_backup_key: astrologer.py lines 73-80, director.py lines 69-76
switch_to_backup_key(keys, index, current) ==
    IF index < Len(keys) - 1
    THEN [switched |-> TRUE, index |-> index + 1, client |-> init_client(keys, index + 1)]
    ELSE [switched |-> FALSE, index |-> index, client |-> current]

pipeline == <<today, stage, daily_success, exit_status, produced, script, rashi,
              gradient_file, music_folder, bg_music_path, audio_file, subtitle_file,
              image_exists, narration, render, attach, texture, screenplay, caller, pc,
              content_mood, active_sections, section_audios, total_duration, idx, scenes,
              output, err>>

\* an agent about to be constructed, main() at its first statement
AgentInit ==
    /\ agent_kind \in AgentKinds
    /\ AgentUnbuilt
    /\ InitMain
    /\ today = [day |-> 15, month |-> 6]
    /\ texture = [k \in {"hook"} |-> "noise_a"]

\* __init__: astrologer.py lines 30-64, director.py lines 29-60, with the
\* environment's keys and the list of the model discovery as inputs
AgentConstruct ==
    /\ agent_pc = "new"
    /\ \E primary \in BOOLEAN, backup \in BOOLEAN, google \in BOOLEAN, n \in 1..MaxModels :
          LET keys == (IF primary THEN <<"primary">> ELSE <<>>)
                         \o (IF backup THEN <<"backup">> ELSE <<>>)
          IN  /\ api_keys' = keys
              /\ google_model' = IF google THEN "gemini" ELSE "None"
              /\ IF keys = <<>> /\ ~google
                 THEN /\ agent_pc' = "raised"
                      /\ result' = [how |-> "ValueError", value |-> "None"]
                 ELSE /\ agent_pc' = "ready"
                      /\ UNCHANGED result
              /\ current_key_index' = 0
              /\ client' = IF keys = <<>> THEN "None" ELSE init_client(keys, 0)
              /\ models' = IF keys = <<>> THEN <<>> ELSE [i \in 1..n |-> ModelId(i)]
    /\ UNCHANGED <<pipeline, agent_kind, tried_backup, model_pos, attempts, scans, calls>>

\* the entry of _generate_script (astrologer.py lines 171-175) and of
\* create_screenplay (director.py lines 138-186); the join of line 145 raises
\* TypeError on a section text that is no string
AgentCall ==
    /\ agent_pc = "ready"
    /\ calls < MaxCalls
    /\ calls' = calls + 1
    /\ attempts' = <<>>
    /\ tried_backup' = FALSE
    /\ model_pos' = 1
    /\ \E text_ok \in (IF agent_kind = "director" THEN BOOLEAN ELSE {TRUE}) :
          IF ~text_ok
          THEN /\ agent_pc' = "ready"
               /\ result' = [how |-> "TypeError", value |-> "None"]
               /\ scans' = 0
          ELSE /\ agent_pc' = IF models = <<>> THEN "google" ELSE "request"
               /\ result' = NoResult
               /\ scans' = 1
    /\ UNCHANGED <<pipeline, agent_kind, api_keys, google_model, models, current_key_index,
                   client>>

\* one iteration of the for loop: astrologer.py lines 175-202, director.py
\* lines 186-214
AgentRequest ==
    /\ agent_pc = "request"
    /\ \E outcome \in {"ok"} \cup ErrorTexts, value \in ReturnValues(agent_kind) :
          LET sw == switch_to_backup_key(api_keys, current_key_index, client)
          IN  /\ attempts' = Append(attempts, [provider |-> client,
                                               model |-> models[model_pos],
                                               outcome |-> outcome])
              /\ IF outcome = "ok"
                 THEN /\ agent_pc' = "ready"
                      /\ result' = [how |-> "json", value |-> value]
                      /\ UNCHANGED <<current_key_index, client, tried_backup, model_pos,
                                     scans>>
                 ELSE IF IsRateLimit(outcome) /\ ~tried_backup /\ sw.switched
                 THEN /\ current_key_index' = sw.index
                      /\ client' = sw.client
                      /\ tried_backup' = TRUE
                      /\ model_pos' = 1
                      /\ scans' = scans + 1
                      /\ UNCHANGED <<agent_pc, result>>
                 ELSE /\ agent_pc' = IF model_pos >= Len(models) THEN "google" ELSE "request"
                      /\ model_pos' = IF model_pos >= Len(models) THEN model_pos
                                      ELSE model_pos + 1
                      /\ UNCHANGED <<current_key_index, client, tried_backup, scans, result>>
    /\ UNCHANGED <<pipeline, agent_kind, api_keys, google_model, models, calls>>

\* the end of the call: astrologer.py lines 84-108 and 207-215, director.py
\* lines 78-100 and 216-226.  Gemini answers with JSON ("ok"), with JSON that
\* is falsy ("empty") or the call or the parse raises ("raise")
AgentGoogle ==
    /\ agent_pc = "google"
    /\ \E g \in (IF google_model = "None" THEN {"no_model"} ELSE {"ok", "empty", "raise"}),
          value \in ReturnValues(agent_kind) :
          /\ attempts' = IF g = "no_model" THEN attempts
                         ELSE Append(attempts, [provider |-> "google",
                                                model |-> google_model,
                                                outcome |-> g])
          /\ result' = IF g = "ok" THEN [how |-> "google", value |-> value]
                       ELSE IF agent_kind = "director"
                       THEN [how |-> "hardcoded", value |-> HardCodedScreenplay]
                       ELSE [how |-> "exception", value |-> "None"]
    /\ agent_pc' = "ready"
    /\ UNCHANGED <<pipeline, agent_kind, api_keys, google_model, models, current_key_index,
                   client, tried_backup, model_pos, scans, calls>>

AgentNext ==
    \/ AgentConstruct
    \/ AgentCall
    \/ AgentRequest
    \/ AgentGoogle

\* a call is sequential code: it takes its next step as long as it has one
AgentSpec == AgentInit /\ [][AgentNext]_vars /\ WF_vars(AgentNext)

----------------------------------------------------------------------------
(* Properties *)

\* the section passed the pre-filter and its synthesis left a readable audio file
HadAudio(k) ==
    /\ AudioReadable(audio_file[k])
    /\ ~IsRawSpeech(k, ScriptGet(script, k))
    /\ k \in Range(PreFilter(script))

\* the synthesis loop is over
AfterSynthesis ==
    caller = "pipeline" /\ pc \in {"trim_check", "trim", "compose", "check_scenes",
                                   "assemble", "done", "raised"}
                        /\ err \notin {"TypeError"}

\* C1: the duration trim never removes a protected section (hook, love, career,
\* remedy): whatever the total, a protected section that has audio before a trim
\* step still has it after the step and is still in the section list, so after
\* the trim every protected section that came out of synthesis with audio is in
\* section_audios and in active_sections.
C1_ProtectedStep ==
    pc = "trim" =>
        \A k \in ProtectedSections :
            k \in DOMAIN section_audios =>
                /\ k \in DOMAIN section_audios'
                /\ section_audios'[k] = section_audios[k]
                /\ k \in Range(active_sections')

C1_ProtectedKept ==
    AfterSynthesis =>
        \A k \in ProtectedSections \cap Range(ScriptKeys(script)) :
            HadAudio(k) => k \in DOMAIN section_audios /\ k \in Range(active_sections)

C1_ProtectedNeverTrimmed == []C1_ProtectedKept /\ [][C1_ProtectedStep]_vars

\* a trim that dropped intro and still left 60s > 58s with hook and love in place
C1_Witness ==
    /\ pc = "compose"
    /\ idx = 1
    /\ InScript(script, "intro")
    /\ HadAudio("intro")
    /\ "intro" \notin DOMAIN section_audios
    /\ {"hook", "love"} \subseteq DOMAIN section_audios
    /\ total_duration > TARGET_DURATION

\* Scenario B of the specification
ScenarioB ==
    [active |-> <<"hook", "intro", "love", "career", "money", "health", "remedy",
                  "lucky_color", "lucky_number">>,
     audios |-> [k \in {"hook", "intro", "love", "career", "money", "health",
                        "remedy", "lucky_color", "lucky_number"} |->
                   [duration |->
                      CASE k = "intro" -> 50 [] k = "hook" -> 60 [] k = "love" -> 90
                        [] k = "career" -> 80 [] k = "money" -> 70 [] k = "health" -> 60
                        [] k = "remedy" -> 90 [] k = "lucky_color" -> 40
                        [] OTHER -> 30]],
     total |-> 570]

\* index of a drop candidate in drop_candidates, 0 for other keys
CandidateIndex(k) ==
    IF k \in Range(drop_candidates)
    THEN CHOOSE i \in 1..Len(drop_candidates) : drop_candidates[i] = k
    ELSE 0

\* the sections the trim has removed so far
Trimmed == {k \in Range(ScriptKeys(script)) : HadAudio(k) /\ k \notin DOMAIN section_audios}

\* C2: with a total above the ceiling the trim removes sections one at a time in
\* the fixed order intro, health, lucky_number, lucky_color, money, only
\* non-protected ones, and stops as soon as the running total is at most the
\* ceiling: a step removes at most the candidate at the loop index, only while
\* the total is above the ceiling, and lowers the total; a removed candidate
\* implies that every earlier candidate is gone and that the total before its
\* removal was above the ceiling.  On Scenario B with a ceiling of 40s the drops
\* are intro, health, lucky_number, lucky_color and the result is 39s.
C2_TrimStep ==
    pc = "trim" =>
        /\ (DOMAIN section_audios') \subseteq DOMAIN section_audios
        /\ (DOMAIN section_audios) \ (DOMAIN section_audios') \subseteq {drop_candidates[idx]}
        /\ (DOMAIN section_audios) \ (DOMAIN section_audios') \subseteq
               Range(drop_candidates) \ ProtectedSections
        /\ Range(active_sections) \ Range(active_sections') =
               (DOMAIN section_audios) \ (DOMAIN section_audios')
        /\ total_duration' <= total_duration
        /\ section_audios' # section_audios => total_duration > TARGET_DURATION
        /\ total_duration <= TARGET_DURATION =>
               UNCHANGED <<active_sections, section_audios, total_duration>>
        /\ pc' = "trim" => idx' = idx + 1

C2_TrimOrder ==
    AfterSynthesis /\ pc # "trim_check" =>
        \A k \in Trimmed :
            /\ k \in Range(drop_candidates)
            /\ \A i \in 1..(CandidateIndex(k) - 1) :
                    drop_candidates[i] \notin DOMAIN section_audios
            /\ \E last \in Trimmed :
                    /\ CandidateIndex(last) >= CandidateIndex(k)
                    /\ total_duration + (audio_file[last].len + PauseBuffer)
                           > TARGET_DURATION

C2_ScenarioB ==
    LET r == SmartTrim(ScenarioB, 400)
    IN  /\ r.active = <<"hook", "love", "career", "money", "remedy">>
        /\ DOMAIN r.audios = {"hook", "love", "career", "money", "remedy"}
        /\ r.total = 390

C3_OutputWithinHardMax ==
    output.written =>
        /\ output.duration <= 590
        /\ ConcatDuration(scenes) > 590 => output.duration = 590

\* C4: with zero scenes no output file is written and a hard failure is
\* signalled (the call raises), whether assemble_final is called on its own or
\* through produce_video_from_script.
C4_EmptyIsHardFailure ==
    (scenes = <<>> /\ pc \in {"done", "raised"}) =>
        ~output.written /\ pc = "raised"

\* C5: produce_video_from_script raises only when zero scenes survive or the
\* encode step fails; a run with at least one scene whose encode succeeds ends
\* with the output written.
C5_RaisesOnlyOnEmptyOrEncode ==
    caller = "pipeline" =>
        /\ pc = "raised" => err \in {"No scenes created.", "EncodeError"}
        /\ (pc \in {"done", "raised"} /\ scenes # <<>> /\ err # "EncodeError") =>
               pc = "done" /\ output.written

\* the narrator was called for the section and wrote no audio in this run
NoArtifact(k) ==
    /\ \/ narration[k].result = "raise_early"
       \/ narration[k].result = "stream_fail" /\ narration[k].len = 0
    /\ ~IsRawSpeech(k, ScriptGet(script, k))
    /\ k \in Range(PreFilter(script))

SceneSections == {scenes[i].section : i \in 1..Len(scenes)}

\* C6: a section whose narrator call produced no audio artifact in this run has
\* no entry in section_audios and yields no scene.
C6_NoArtifactDropped ==
    AfterSynthesis =>
        \A k \in Range(ScriptKeys(script)) :
            NoArtifact(k) => k \notin DOMAIN section_audios /\ k \notin SceneSections

\* C7: when create_scene fails for a section, no scene is appended for it, the
\* loop goes on with the next section and the run does not fail.
C7_RenderFailureSkips ==
    [][(/\ pc = "compose"
        /\ active_sections[idx] \in DOMAIN section_audios
        /\ render[active_sections[idx]] = "raise")
       => /\ scenes' = scenes
          /\ pc' = AfterLoop(active_sections, idx, "compose", "check_scenes")
          /\ err' = "none"]_vars

\* C8: a missing optional asset is never an error: without a category image
\* the scene has no image layer, and assemble_final on a non-empty scene list
\* raises for no reason other than the encode, whatever assets/music holds.
C8_SceneImageLayer ==
    \A i \in 1..Len(scenes) :
        /\ scenes[i].layers[1].kind = "background"
        /\ (\E j \in 1..Len(scenes[i].layers) : scenes[i].layers[j].kind = "rashi_image")
               <=> image_exists

C8_MissingAssetNeverRaises ==
    /\ []C8_SceneImageLayer
    /\ [][(pc = "assemble" /\ scenes # <<>>) => err' \in {"none", "EncodeError"}]_vars

\* position of a key in the order the pre-filter is to produce
C9_Rank(k) ==
    IF k \in Range(priority_order)
    THEN CHOOSE i \in 1..Len(priority_order) : priority_order[i] = k
    ELSE Len(priority_order) + (CHOOSE i \in 1..Len(script) : script[i].key = k)

\* C9: the pre-filter keeps exactly the sections whose text is present,
\* non-empty and at least 5 characters long; the list has the known keys in
\* priority order, then the unknown keys in the order of the script, each key
\* at most once.
C9_PreFilterExact ==
    [][pc = "prefilter" =>
        /\ Range(active_sections') =
              {script[i].key : i \in {j \in 1..Len(script) :
                                        /\ script[j].value.kind # "none"
                                        /\ script[j].value.len > 0
                                        /\ script[j].value.len >= 5}}
        /\ \A i, j \in 1..Len(active_sections') :
              i < j => C9_Rank(active_sections'[i]) < C9_Rank(active_sections'[j])]_vars

\* zeta, lucky_number (4 characters) and intro, in this order, give intro, zeta
C9_Witness ==
    /\ pc = "synth"
    /\ idx = 1
    /\ ScriptKeys(script) = <<"zeta", "lucky_number", "intro">>
    /\ script[2].value = Str(4)
    /\ active_sections = <<"intro", "zeta">>

\* C10: when the total is still above the ceiling after the trim loop, the run
\* goes on to the scene loop without an exception, and the sections that are
\* left are composed and assembled like those of any other run.
C10_Composed ==
    (caller = "pipeline" /\ pc \in {"check_scenes", "assemble", "done"}) =>
        SceneSections = {k \in (DOMAIN section_audios) \cap Range(active_sections) :
                            attach[k] = "ok"}

C10_ProceedsOverCeiling ==
    /\ []C10_Composed
    /\ [][(pc = "trim" /\ pc' # "trim" /\ total_duration' > TARGET_DURATION)
          => /\ pc' \in {"compose", "check_scenes"}
             /\ active_sections' # <<>> => pc' = "compose"
             /\ err' = "none"]_vars

\* intro was dropped, hook and love (60s) were assembled
C10_Witness ==
    /\ pc = "done"
    /\ output.written
    /\ total_duration > TARGET_DURATION
    /\ Trimmed # {}
    /\ output.sections = <<"hook", "love">>

\* kinds of the caption layers of a scene
CaptionKinds(scene) ==
    {scene.layers[j].kind : j \in {n \in 1..Len(scene.layers) :
                                      scene.layers[n].kind \in {"karaoke", "static"}}}

\* this run's narration of the section delivered word-timing events and saved them
TimedInThisRun(k) == narration[k].result = "ok" /\ narration[k].words # <<>>

\* C11: the caption mode of a scene follows the word timings of this run's
\* narration of its section: karaoke captions and no static caption when the
\* narration delivered word timings, the static caption and no karaoke caption
\* when it delivered none, whatever the other sections had.
C11_CaptionModeByTimings ==
    caller = "pipeline" =>
        \A i \in 1..Len(scenes) :
            CaptionKinds(scenes[i]) =
                IF TimedInThisRun(scenes[i].section) THEN {"karaoke"} ELSE {"static"}

IsShown(sub) == ~IsBlank(sub.text)

IsKaraoke(layer) == layer.kind = "karaoke"

\* the word timings create_scene was given for the section of a scene
SubtitleDataOf(scene) ==
    IF Exists(subtitle_file[scene.section]) THEN subtitle_file[scene.section].words
    ELSE <<>>

\* two display windows have an instant in common
WindowsOverlap(v, w) == ~FloatLE(v.end, w.start) /\ ~FloatLE(w.end, v.start)

\* C12: in karaoke mode every word has one caption clip, shown during
\* [start, start + duration) with the start and the duration of its own word
\* timing, and the display windows of two different words never overlap.
C12_KaraokeWindows ==
    caller = "pipeline" =>
        \A i \in 1..Len(scenes) :
            LET shown == SelectSeq(SubtitleDataOf(scenes[i]), IsShown)
                clips == SelectSeq(scenes[i].layers, IsKaraoke)
            IN  SubtitleDataOf(scenes[i]) # <<>> =>
                  /\ Len(clips) = Len(shown)
                  /\ \A j \in 1..Len(clips) :
                        /\ clips[j].start = shown[j].start
                        /\ clips[j].end = shown[j].start + shown[j].duration
                  /\ \A a, b \in 1..Len(shown) :
                        a < b => ~WindowsOverlap(
                                     ClipWindow(shown[a].start, shown[a].duration),
                                     ClipWindow(shown[b].start, shown[b].duration))

\* start[i] <= start[i+1] and start[i] + duration[i] <= start[i+1], in seconds
SortedDisjoint(words) ==
    \A i \in 1..(Len(words) - 1) :
        /\ FloatLE(Seconds(words[i].start), Seconds(words[i + 1].start))
        /\ FloatLE(ClipWindow(words[i].start, words[i].duration).end,
                   Seconds(words[i + 1].start))

\* C13: the word timings loaded for the section that the scene loop is about
\* to compose are sorted by start and do not overlap.
C13_TimingsSortedDisjoint ==
    (caller = "pipeline" /\ pc = "compose") =>
        LET section == active_sections[idx]
        IN  (section \in DOMAIN section_audios /\ Exists(subtitle_file[section]))
                => SortedDisjoint(subtitle_file[section].words)

IsCaption(layer) == layer.kind \in {"karaoke", "static"}

\* C14: a scene composed without word timings has exactly one caption layer,
\* the static caption, shown from the start of the scene to its end: the
\* caption display time, the planned duration of the section and the duration
\* of the scene are equal.
C14_StaticCaptionSpansScene ==
    caller = "pipeline" =>
        \A i \in 1..Len(scenes) :
            SubtitleDataOf(scenes[i]) = <<>> =>
                LET captions == SelectSeq(scenes[i].layers, IsCaption)
                    Dur == section_audios[scenes[i].section].duration
                IN  /\ Len(captions) = 1
                    /\ captions[1].kind = "static"
                    /\ captions[1].start = 0
                    /\ captions[1].end - captions[1].start = Dur
                    /\ scenes[i].duration = Dur

\* a 30s scene of hook whose narration delivered no word timing
C14_Witness ==
    /\ caller = "pipeline"
    /\ pc = "done"
    /\ output.written
    /\ Len(scenes) = 2
    /\ scenes[1].section = "hook"
    /\ narration["hook"] = NarrOk(297, <<>>)
    /\ subtitle_file["hook"] = NoFile
    /\ scenes[1].duration = 300
    /\ \E j \in 1..Len(scenes[1].layers) : scenes[1].layers[j] = Layer("static", 0, 300)

\* C15: the background of a rashi is computed once in a run and reused: two
\* scenes of the same rashi key have the same background image, and the image
\* stored for a key is not changed once it has been written.
C15_SameBackground ==
    \A i, j \in 1..Len(scenes) :
        scenes[i].background.key = scenes[j].background.key
            => scenes[i].background = scenes[j].background

C15_StoredOnceStep ==
    \A k \in DOMAIN gradient_file :
        k \in DOMAIN gradient_file' /\ gradient_file'[k] = gradient_file[k]

C15_BackgroundCached == []C15_SameBackground /\ [][C15_StoredOnceStep]_vars

\* C16: the colours of a background depend on the rashi key alone: a key of
\* RASHI_GRADIENTS gets the colours of its entry and every other key gets the
\* one default ramp (30, 30, 60) to (10, 10, 20), whatever the texture drawn.
C16_ThemeByKey ==
    \A i \in 1..Len(scenes) :
        LET bg == scenes[i].background
            known == /\ Len(bg.key) = 1
                     /\ bg.key[1].t = "word"
                     /\ bg.key[1].w \in DOMAIN RASHI_GRADIENTS
        IN  /\ bg.key = get_rashi_key(clean_rashi_name(rashi))
            /\ known => bg.colors = RASHI_GRADIENTS[bg.key[1].w]
            /\ ~known => bg.colors = [top |-> <<30, 30, 60>>, bottom |-> <<10, 10, 20>>]
            /\ \A j \in 1..Len(scenes) :
                  scenes[j].background.key = bg.key
                      => scenes[j].background.colors = bg.colors

\* "Pluto (Dwarf)": two scenes with the default ramp and different textures
C16_Witness ==
    /\ pc = "done"
    /\ output.written
    /\ rashi = <<Wd("pluto", TRUE), Sp, LP, Wd("dwarf", TRUE), RP>>
    /\ Len(scenes) >= 2
    /\ scenes[1].background.key = <<Wd("pluto", FALSE)>>
    /\ scenes[1].background.noise # scenes[2].background.noise
    /\ scenes[1].background.colors = scenes[2].background.colors
    /\ scenes[1].background.colors.top = <<30, 30, 60>>

\* str.lower() of the moods of the runs
MoodLower(mood) ==
    CASE mood = "Energetic" -> "energetic"
      [] mood = "Mysterious" -> "mysterious"
      [] mood = "Peaceful" -> "peaceful"
      [] OTHER -> mood

\* the words of the family of a mood
FamilyWords(mood_lower) ==
    CASE mood_lower \in {"energetic", "happy"} -> {"upbeat", "fast"}
      [] mood_lower \in {"peaceful", "calm"} -> {"ambient", "soft"}
      [] mood_lower = "mysterious" -> {"dark", "slow"}
      [] OTHER -> {}

\* the tracks the selection may return: those of the mood, else those of its
\* family, else all
Eligible(tracks, mood) ==
    LET exact == {t \in tracks : MoodLower(mood) \in t.has}
        family == {t \in tracks : t.has \cap FamilyWords(MoodLower(mood)) # {}}
    IN  IF exact # {} THEN exact ELSE IF family # {} THEN family ELSE tracks

\* C17: when the music folder holds at least one track, the selection returns
\* one of its tracks: a track of the mood if there is one, else a track of the
\* family of the mood, else any track.
C17_TrackByMood ==
    (bg_music_path # "unset" /\ music_folder.tracks # {}) =>
        bg_music_path \in {t.file : t \in Eligible(music_folder.tracks, content_mood)}

\* C18: the audio file and the word-timing sidecar used for a scene are those
\* written by this run's narration of its section, also when an earlier run
\* left files at the same paths.
C18_ArtifactsOfThisRun ==
    caller = "pipeline" =>
        \A i \in 1..Len(scenes) :
            LET k == scenes[i].section
            IN  /\ audio_file[k].origin = "run"
                /\ SubtitleDataOf(scenes[i]) # <<>> => subtitle_file[k].origin = "run"

\* C19: the process exits with a failure status exactly when the daily
\* production wrote no video; what happens to the monthly and the yearly
\* production leaves daily_success and the exit status as they were.
C19_Exited ==
    stage = "exited" =>
        /\ exit_status \in {"0", "1"}
        /\ exit_status = "1" <=> "daily" \notin produced

C19_LaterStagesStep ==
    stage \in {"monthly", "yearly"} =>
        /\ daily_success' = daily_success
        /\ exit_status' = exit_status
        /\ ("daily" \in produced') <=> ("daily" \in produced)

C19_ExitStatusIsDaily == []C19_Exited /\ [][C19_LaterStagesStep]_vars

\* 1 January: the daily video was written, the monthly and the yearly
\* production failed, the process exits with status 0
C19_Witness ==
    /\ stage = "exited"
    /\ today = [day |-> 1, month |-> 1]
    /\ produced = {"daily"}
    /\ exit_status = "0"

\* position of a section in the list of the planner
PlanIndex(k) == CHOOSE i \in 1..Len(active_sections) : active_sections[i] = k

\* C20: the video plays the scenes it was given one after the other, in the
\* order of the scene list, which for the pipeline is the order of the
\* planner's section list, and it lasts as long as the scenes together.
C20_ConcatInOrder ==
    output.written =>
        /\ Len(output.sections) = Len(scenes)
        /\ \A i \in 1..Len(scenes) :
              /\ output.sections[i] = scenes[i].section
              /\ output.starts[i] = SumSeq([j \in 1..(i - 1) |-> scenes[j].duration])
        /\ \A i, j \in 1..Len(scenes) :
              i < j => /\ output.starts[i] + scenes[i].duration <= output.starts[j]
                       /\ caller # "direct" =>
                             PlanIndex(scenes[i].section) < PlanIndex(scenes[j].section)
        /\ output.duration = SumSeq([i \in 1..Len(scenes) |-> scenes[i].duration])

\* hook, love and career of 28s each: the video plays them from 0s, 28s and
\* 56s and lasts 84s
C20_Witness ==
    /\ pc = "done"
    /\ output.written
    /\ output.sections = <<"hook", "love", "career">>
    /\ output.starts = <<0, 280, 560>>
    /\ output.duration = 840

\* C21: every scene of the scene list carries the narration audio of its own
\* section; the scene loop appends a scene only with that audio attached and
\* appends nothing when the attach fails; assemble_final leaves the scenes and
\* the audio files as they are.
C21_ScenesCarryAudio ==
    \A i \in 1..Len(scenes) : scenes[i].audio = scenes[i].section

C21_AttachStep ==
    /\ (pc = "compose" /\ scenes' # scenes) =>
          /\ Len(scenes') = Len(scenes) + 1
          /\ SubSeq(scenes', 1, Len(scenes)) = scenes
          /\ scenes'[Len(scenes')].audio = active_sections[idx]
          /\ attach[active_sections[idx]] = "ok"
    /\ (/\ pc = "compose"
        /\ active_sections[idx] \in DOMAIN section_audios
        /\ attach[active_sections[idx]] = "raise") => scenes' = scenes
    /\ pc = "assemble" => scenes' = scenes /\ audio_file' = audio_file

C21_AudioPreAttached == []C21_ScenesCarryAudio /\ [][C21_AttachStep]_vars

\* the attach failed for hook and worked for health: one scene, with the audio
\* of health
C21_Witness ==
    /\ pc = "done"
    /\ output.written
    /\ caller = "pipeline"
    /\ Len(scenes) = 1
    /\ scenes[1].section = "health"
    /\ scenes[1].audio = "health"
    /\ "hook" \in DOMAIN section_audios
    /\ attach["hook"] = "raise"
    /\ render["hook"] = "ok"

\* place of a layer kind in the render order
LayerRank(kind) ==
    CASE kind = "background" -> 0
      [] kind = "rashi_image" -> 1
      [] OTHER -> 2

\* C22: the layers of every scene are in the order background, rashi image
\* (when there is one), captions: the first layer is the one background, at
\* most one image follows it, and every caption comes after both.
C22_LayerOrder ==
    \A i \in 1..Len(scenes) :
        LET layers == scenes[i].layers
        IN  /\ layers # <<>>
            /\ layers[1].kind = "background"
            /\ \A a, b \in 1..Len(layers) :
                  a < b => /\ LayerRank(layers[a].kind) <= LayerRank(layers[b].kind)
                           /\ LayerRank(layers[b].kind) # 0
                           /\ ~(layers[a].kind = "rashi_image"
                                /\ layers[b].kind = "rashi_image")

\* a scene with the image and two karaoke captions
C22_Witness ==
    /\ pc = "done"
    /\ output.written
    /\ image_exists
    /\ [j \in 1..Len(scenes[1].layers) |-> scenes[1].layers[j].kind]
          = <<"background", "rashi_image", "karaoke", "karaoke">>

\* the durations measured by the synthesis loop, in the order of the section list
MeasuredDurations ==
    LET Measured(k) == HadAudio(k)
        keys == SelectSeq(PreFilter(script), Measured)
    IN  [i \in 1..Len(keys) |-> audio_file[keys[i]].len + PauseBuffer]

\* the run is past the check of line 190
PastTrimCheck ==
    caller = "pipeline" /\ pc \in {"trim", "compose", "check_scenes", "assemble", "done"}

\* C23: when the measured durations sum to at most the ceiling (58s) the trim
\* phase changes nothing: the check of the total leads straight to the scene
\* loop with the section list, the audio map and the total as they were, no
\* section is trimmed later in the run, and every section that passed
\* synthesis is composed: it has a scene at the end of the loop when its audio
\* could be attached.  hook 6s, love 8s, career 10s, remedy 7s gives four
\* scenes and no trim.
C23_NoTrimRun ==
    (PastTrimCheck /\ SumSeq(MeasuredDurations) <= TARGET_DURATION) =>
        /\ pc # "trim"
        /\ Trimmed = {}
        /\ active_sections = PreFilter(script)
        /\ DOMAIN section_audios = {k \in Range(PreFilter(script)) : HadAudio(k)}
        /\ total_duration = SumSeq(MeasuredDurations)
        /\ pc \in {"check_scenes", "assemble", "done"} =>
              SceneSections = {k \in Range(PreFilter(script)) :
                                  HadAudio(k) /\ attach[k] = "ok"}

C23_NoTrimStep ==
    (pc = "trim_check" /\ total_duration <= TARGET_DURATION) =>
        /\ pc' = EnterCompose(active_sections)
        /\ active_sections' = active_sections
        /\ section_audios' = section_audios
        /\ total_duration' = total_duration

----------------------------------------------------------------------------
(* Properties of the generation agents *)

\* the call has ended in the failure of its kind: the astrologer raised, the
\* director returned its hard-coded screenplay
FailureDeclared == agent_pc = "ready" /\ result.how \in {"exception", "hardcoded"}

\* the providers and the models of the requests of the call
Tried(field) == {attempts[i][field] : i \in 1..Len(attempts)}

\* C24: the failover is an ordered provider chain: the key index advances to
\* the next key only on a quota/rate-limit signal, and failure is declared
\* (the astrologer raises, the director returns its hard-coded fallback) only
\* after every available key, every model and the Google fallback have been
\* tried and have failed.
C24_AdvanceOnSignal ==
    current_key_index' # current_key_index =>
        /\ current_key_index' = current_key_index + 1
        /\ attempts' # <<>>
        /\ IsRateLimit(attempts'[Len(attempts')].outcome)

C24_ExhaustedBeforeFailure ==
    FailureDeclared =>
        /\ \A key \in Range(api_keys) : key \in Tried("provider")
        /\ \A model \in Range(models) : model \in Tried("model")
        /\ google_model # "None" => "google" \in Tried("provider")
        /\ \A i \in 1..Len(attempts) : attempts[i].outcome # "ok"

C24_ProviderChain == []C24_ExhaustedBeforeFailure /\ [][C24_AdvanceOnSignal]_vars

\* main.py line 172: clip.duration + 0.3 for an audio of len tenths of a second
FloatDuration(len) == FloatAdd(Seconds(len), Seconds(PauseBuffer))

\* x + d1 + d2 + ..., from the left
RECURSIVE FloatSum(_, _)
FloatSum(x, ds) == IF ds = <<>> THEN x ELSE FloatSum(FloatAdd(x, Head(ds)), Tail(ds))

\* x - d1 - d2 - ..., from the left
RECURSIVE FloatDiff(_, _)
FloatDiff(x, ds) == IF ds = <<>> THEN x ELSE FloatDiff(FloatSub(x, Head(ds)), Tail(ds))

\* phases 1 and 2 of a run of the pipeline, and what follows them
InPhases ==
    caller = "pipeline" /\ pc \in {"synth", "trim_check", "trim", "compose",
                                   "check_scenes", "assemble", "done"}

\* the sections the trim has removed, none during the synthesis
TrimmedSoFar == IF pc = "synth" THEN {} ELSE Trimmed

\* the durations of the sections of a list that are in a set, as Python has them
DurationsOf(list, S) ==
    LET In(k) == k \in S
        keys == SelectSeq(list, In)
    IN  [i \in 1..Len(keys) |-> FloatDuration(audio_file[keys[i]].len)]

\* total_duration as lines 181 and 215 compute it: the durations added in the
\* order of the synthesis, those of the dropped sections subtracted in the
\* order of the drops
RunningTotal ==
    FloatDiff(FloatSum(FloatZero, DurationsOf(PreFilter(script),
                                              (DOMAIN section_audios) \cup TrimmedSoFar)),
              DurationsOf(drop_candidates, TrimmedSoFar))

\* sum(v["duration"] for v in section_audios.values())
SumOfAudios == FloatSum(FloatZero, DurationsOf(PreFilter(script), DOMAIN section_audios))

\* C25: throughout phases 1 and 2 total_duration equals the sum of the
\* durations held in section_audios: after each synthesis it is the sum of the
\* durations measured so far, after each trim step it has decreased by exactly
\* the duration removed, and a drop candidate with no entry is skipped with the
\* total and the list unchanged.
\* in tenths of a second first, then as the Python floats; before a trim the two
\* floats are the same sum of the same terms
C25_TotalIsSum ==
    InPhases =>
        /\ total_duration = SumSeq([i \in 1..Len(active_sections) |->
                                      IF active_sections[i] \in DOMAIN section_audios
                                      THEN section_audios[active_sections[i]].duration
                                      ELSE 0])
        /\ TrimmedSoFar # {} => RunningTotal = SumOfAudios

C25_TrimStep ==
    pc = "trim" =>
        \/ /\ drop_candidates[idx] \in DOMAIN section_audios
           /\ ~TrimBreaks(total_duration, TARGET_DURATION)
           /\ total_duration' =
                 total_duration - section_audios[drop_candidates[idx]].duration
        \/ /\ total_duration' = total_duration
           /\ active_sections' = active_sections
           /\ section_audios' = section_audios

C25_Bookkeeping == []C25_TotalIsSum /\ [][C25_TrimStep]_vars

\* C26: the duration of each composed scene equals the planned duration of its
\* section (audio + 0.3s), in both caption modes and for every word-timing
\* list loaded from the sidecar, so that the scene durations sum to at most the
\* total_duration left by the trim.
C26_SceneDurationPlanned ==
    (caller = "pipeline" /\ pc \in {"compose", "check_scenes", "assemble", "done"}) =>
        /\ \A i \in 1..Len(scenes) :
              scenes[i].duration = section_audios[scenes[i].section].duration
        /\ ConcatDuration(scenes) <= total_duration

\* position of a key in a list without repetitions, 0 when it is not in it
IndexIn(list, k) ==
    IF k \in Range(list) THEN CHOOSE i \in 1..Len(list) : list[i] = k ELSE 0

\* C27: the scene list is an order-preserving subsequence of the pre-filtered
\* section list: every scene is the scene of a section of that list, each key
\* has at most one scene, the scenes follow one another in the order of the
\* list, and a section that was trimmed or that has no audio has none: a trim
\* step that takes a duration off the total takes the section out of the list
\* and the map, and every scene belongs to a section still in both.
C27_SceneList ==
    caller # "direct" =>
        /\ \A i \in 1..Len(scenes) :
              /\ scenes[i].section \in Range(PreFilter(script))
              /\ scenes[i].section \in Range(active_sections)
              /\ scenes[i].section \in DOMAIN section_audios
        /\ \A i, j \in 1..Len(scenes) :
              i < j => IndexIn(PreFilter(script), scenes[i].section)
                          < IndexIn(PreFilter(script), scenes[j].section)

C27_TrimStep ==
    (pc = "trim" /\ total_duration' < total_duration) =>
        /\ drop_candidates[idx] \notin DOMAIN section_audios'
        /\ drop_candidates[idx] \notin Range(active_sections')
        /\ scenes' = <<>>

C27_OrderedSubsequence == []C27_SceneList /\ [][C27_TrimStep]_vars

\* hook, intro, love with 58.1s: intro is trimmed, the scenes are hook and love
C27_Witness ==
    /\ pc = "done"
    /\ narration = UnevenPlan
    /\ PreFilter(script) = <<"hook", "intro", "love">>
    /\ [i \in 1..Len(scenes) |-> scenes[i].section] = <<"hook", "love">>

\* a call of _generate_script or create_screenplay is under way
InCall == agent_pc \in {"request", "google"}

\* the requests of the call made with an OpenRouter key
KeyRequests ==
    LET WithKey(a) == a.provider # "google"
    IN  SelectSeq(attempts, WithKey)

\* C28: every call of _generate_script and create_screenplay terminates for
\* every pattern of model failures: a call under way always ends, it switches
\* the key at most once, scans the model list at most twice, and attempts each
\* model at most once per key.
C28_Bounded ==
    /\ scans <= 2
    /\ Cardinality({i \in 1..(Len(KeyRequests) - 1) :
                       KeyRequests[i].provider # KeyRequests[i + 1].provider}) <= 1
    /\ \A i, j \in 1..Len(KeyRequests) :
          i < j => \/ KeyRequests[i].provider # KeyRequests[j].provider
                   \/ KeyRequests[i].model # KeyRequests[j].model
    /\ Len(attempts) <= 2 * Len(models) + 1

C28_Terminates == []C28_Bounded /\ (InCall ~> agent_pc = "ready")

\* a call that failed after a switch: the list was scanned twice, with a key each
C28_Witness ==
    /\ FailureDeclared
    /\ scans = 2
    /\ Len(KeyRequests) = 2 * Len(models)
    /\ Len(models) = MaxModels

\* __init__ has returned an agent
Constructed == agent_pc \in {"ready", "request", "google"}

\* C29: whenever api_keys is non-empty, 0 <= current_key_index <=
\* len(api_keys) - 1 and the client in use is the one built from
\* api_keys[current_key_index]; the index never decreases over the agent's
\* lifetime, and a switch made in one call persists into the later calls: the
\* entry of a call leaves the index and the client as they are.
C29_IndexInRange ==
    (Constructed /\ api_keys # <<>>) =>
        /\ 0 <= current_key_index
        /\ current_key_index <= Len(api_keys) - 1
        /\ client = api_keys[current_key_index + 1]

C29_IndexStep ==
    /\ current_key_index' >= current_key_index
    /\ (agent_pc = "ready" /\ agent_pc' # "ready") =>
          (current_key_index' = current_key_index /\ client' = client)

C29_KeyIndex == []C29_IndexInRange /\ [][C29_IndexStep]_vars

\* the second call of an agent that switched to its backup key in the first
C29_Witness ==
    /\ calls = 2
    /\ agent_pc = "request"
    /\ attempts = <<>>
    /\ current_key_index = 1
    /\ client = "backup"

\* C30: a failure of the mood classifier never fails the run and always leaves
\* a usable mood: the call of create_screenplay at the head of
\* produce_video_from_script returns, whatever fails inside it, and the run
\* goes on to the pre-filter with the mood of the result, or with "peaceful"
\* when the result is not a mapping or has no mood.
C30_MoodStep ==
    pc = "start" =>
        /\ pc' = "prefilter"
        /\ err' = "none"
        /\ content_mood' = IF screenplay.isdict /\ screenplay.mood # "absent"
                           THEN screenplay.mood ELSE "peaceful"

C30_MoodNeverFails == [][C30_MoodStep]_vars

====
